---- MODULE Spec2Model ----
(***************************************************************************)
(* Kairos DCA agent: the scheduler (SchedulerService), the strategy store  *)
(* (StrategiesService), the permission store (PermissionsService), the     *)
(* execution pipeline (ExecutionService.executeSwap) and the notification  *)
(* gateway's execution handlers, as one state machine.                     *)
(*                                                                         *)
(* Time is counted in minutes.  Token amounts are counted in the smallest  *)
(* unit of the input asset (USDC, 6 decimals); the scheduler converts the  *)
(* spent amounts and the period amount to doubles and divides them by 1e6  *)
(* before adding and comparing them, which is modelled digit by digit.     *)
(* Strategies trade a USDC-based pair, for which executeSwap takes the     *)
(* recommended amount as the USDC amount.                                  *)
(***************************************************************************)
EXTENDS Integers, Sequences, FiniteSets, TLC

(* ------------------------------ bounds -------------------------------- *)
MaxEvals == 2
MaxPerms == 2
MaxRequests == 1
InitialWallet == 3
InitialBalance == 1

(* ------------------------- program constants -------------------------- *)
FiveMinutes == 5
OneHour == 60
OneDay == 1440
OneWeek == 10080

Users == {"u1"}
Strategies == {"s1", "s2"}
Procs == {"p1", "p2"}

FrequencyInputs == {"5min", "daily"}
\* the instants at which the clock is observed
TimePoints == {0, OneDay}
Amounts == {1, 2}
PermissionTypes == {"native-token-periodic", "erc20-token-periodic"}
ExpiryInputs == {OneDay}
PeriodAmountInputs == {2}

NoStrategy == [id |-> "none", userId |-> "none", frequency |-> "none", nextCheckTime |-> -1]
NoInvocation ==
  [ethPermission |-> FALSE, usdcPermission |-> FALSE, usdcBalance |-> -1, usdcAmount |-> 0,
   funded |-> 0, fundAmount |-> 0, newUsdcBalance |-> -1,
   approved |-> 0, swapped |-> 0, confirmed |-> {}, threwAt |-> "none"]
IdleProc ==
  [pc |-> "idle", queue |-> << >>, strategy |-> NoStrategy,
   executionId |-> 0, inv |-> NoInvocation, outcome |-> "none", nextCheckAfter |-> -1]

VARIABLES
  now,          \* wall clock, minutes
  evaluations,  \* number of evaluateStrategy calls so far
  strategies,   \* DCAStrategy table: id -> [exists, isActive, frequency, nextCheckTime]
  executions,   \* Execution table: id -> record
  nextId,       \* next Execution id
  permissions,  \* Permission table, in creation order
  sessions,     \* SessionAccount table: user -> "none" | "active" | "inactive"
  bal,          \* on-chain USDC balance of each user's session account
  wallet,       \* on-chain USDC balance of each user's own wallet
  procs,        \* the running checkStrategies / triggerStrategyCheck calls
  requests,     \* number of administration calls and gateway messages so far
  maxNeeded,    \* per user: largest usdcAmount of any executeSwap invocation so far
  call          \* the call of a pure function under examination: inputs and result

vars == <<now, evaluations, strategies, executions, nextId, permissions, sessions, bal,
          wallet, procs, requests, maxNeeded, call>>

dbVars == <<strategies, executions, nextId, permissions, sessions>>
chainVars == <<bal, wallet>>

\* DCAStrategy.userId
Owner(s) == strategies[s].userId

Max(a, b) == IF a >= b THEN a ELSE b

Min(a, b) == IF a <= b THEN a ELSE b

(* ------------------------- StrategiesService -------------------------- *)

\* a next check time that does not move on
sameTime(frequency, t) == t

calculateNextCheckTime(frequency, t) ==
  CASE frequency = "5min" -> t + FiveMinutes
    [] frequency = "hourly" -> t + OneHour
    [] frequency = "daily" -> t + OneDay
    [] frequency = "weekly" -> t + OneWeek
    [] OTHER -> t + OneDay

findDueStrategies ==
  {s \in Strategies : /\ strategies[s].exists
                      /\ strategies[s].isActive
                      /\ strategies[s].nextCheckTime <= now}

Snapshot(s) ==
  [id |-> s, userId |-> strategies[s].userId, frequency |-> strategies[s].frequency,
   nextCheckTime |-> strategies[s].nextCheckTime]

\* prisma.dCAStrategy.update({where: {id}, data: {nextCheckTime}})
updateNextCheckTime(id, frequency) ==
  [strategies EXCEPT ![id].nextCheckTime = calculateNextCheckTime(frequency, now)]

(* ------------------------- PermissionsService ------------------------- *)

\* where: {expiresAt: {gte: new Date()}, revokedAt: null}
IsActivePermission(i) ==
  /\ permissions[i].expiresAt >= now
  /\ ~permissions[i].revoked

\* the rows getUserPermissions returns for a user
getUserPermissions(u) ==
  {i \in DOMAIN permissions : permissions[i].user = u /\ IsActivePermission(i)}

\* the row of S that expires last
LastToExpire(S) ==
  {i \in S : \A j \in S : permissions[j].expiresAt <= permissions[i].expiresAt}

\* the row of S with the greatest createdAt (orderBy createdAt desc, first row);
\* the table is kept in creation order
MostRecent(S) ==
  {i \in S : \A j \in S : j <= i}

(* ----------------------- JavaScript Number (double) -------------------- *)

\* A non-negative double is [m |-> digits, e |-> exponent]: the natural number m
\* times 2^e, where m has at most Precision binary digits (or is 2^Precision).
\* Natural numbers are sequences of digits in base Limb, least significant first,
\* without leading zero digits.
Precision == 53

Limb == 2^14

LimbBits == 14

Zero == [m |-> << >>, e |-> 0]

LimbAt(a, i) == IF i \in 1..Len(a) THEN a[i] ELSE 0

Trim(a) ==
  LET used == {i \in 1..Len(a) : a[i] # 0}
  IN IF used = {} THEN << >>
     ELSE SubSeq(a, 1, CHOOSE i \in used : \A j \in used : j <= i)

\* a natural number below 2^31 as digits
NatOf(x) == Trim(<<x % Limb, (x \div Limb) % Limb, x \div (Limb * Limb)>>)

RECURSIVE CarryInto(_, _, _)
CarryInto(a, b, i) ==
  IF i = 1 THEN 0
  ELSE (LimbAt(a, i - 1) + LimbAt(b, i - 1) + CarryInto(a, b, i - 1)) \div Limb

AddNat(a, b) ==
  Trim([i \in 1..(Max(Len(a), Len(b)) + 1) |->
          (LimbAt(a, i) + LimbAt(b, i) + CarryInto(a, b, i)) % Limb])

\* a * 2^k
ShiftLeft(a, k) ==
  LET q == k \div LimbBits
      s == k % LimbBits
  IN Trim([i \in 1..(Len(a) + q + 1) |->
             (LimbAt(a, i - q) % 2^(LimbBits - s)) * 2^s
               + LimbAt(a, i - q - 1) \div 2^(LimbBits - s)])

\* a \div 2^k
ShiftRight(a, k) ==
  LET q == k \div LimbBits
      s == k % LimbBits
  IN Trim([i \in 1..Max(0, Len(a) - q) |->
             LimbAt(a, i + q) \div 2^s
               + (LimbAt(a, i + q + 1) % 2^s) * 2^(LimbBits - s)])

\* the number of binary digits of a
BitLength(a) ==
  IF a = << >> THEN 0
  ELSE LimbBits * (Len(a) - 1)
         + CHOOSE n \in 1..LimbBits : a[Len(a)] \div 2^(n - 1) = 1

\* binary digit i of a, digit 0 the least significant
Bit(a, i) == (LimbAt(a, i \div LimbBits + 1) \div 2^(i % LimbBits)) % 2

LessNat(a, b) ==
  IF Len(a) # Len(b) THEN Len(a) < Len(b)
  ELSE \E i \in 1..Len(a) : /\ a[i] < b[i]
                            /\ \A j \in (i + 1)..Len(a) : a[j] = b[j]

\* short division by d < 2^17: the remainder left by the digits i and above
RECURSIVE RemainderFrom(_, _, _)
RemainderFrom(a, d, i) ==
  IF i > Len(a) THEN 0 ELSE (RemainderFrom(a, d, i + 1) * Limb + a[i]) % d

QuotientNat(a, d) ==
  Trim([i \in 1..Len(a) |-> (RemainderFrom(a, d, i + 1) * Limb + a[i]) \div d])

\* round to nearest, ties to even: n times 2^e, plus a rest below the last digit
\* of n that is non-zero iff sticky
RoundToDouble(n, e, sticky) ==
  LET k == BitLength(n) - Precision
  IN IF k <= 0 THEN [m |-> n, e |-> e]
     ELSE LET kept == ShiftRight(n, k)
              half == Bit(n, k - 1)
              rest == sticky \/ ShiftLeft(ShiftRight(n, k - 1), k - 1) # n
              up == half = 1 /\ (rest \/ Bit(kept, 0) = 1)
          IN [m |-> IF up THEN AddNat(kept, <<1>>) ELSE kept, e |-> e + k]

\* Number(x) / 1e6 for an integer 0 <= x < 2^31: 1e6 = 15625 * 2^6, and the
\* quotient of x * 2^70 by 15625 has more than Precision + 2 digits
DivideByMillion(x) ==
  IF x = 0 THEN Zero
  ELSE LET n == ShiftLeft(NatOf(x), 70)
       IN RoundToDouble(QuotientNat(n, 15625), 0 - 76, RemainderFrom(n, 15625, 1) # 0)

\* a + b
AddNumber(a, b) ==
  IF a.m = << >> THEN b
  ELSE IF b.m = << >> THEN a
  ELSE LET lo == IF a.e <= b.e THEN a.e ELSE b.e
       IN RoundToDouble(AddNat(ShiftLeft(a.m, a.e - lo), ShiftLeft(b.m, b.e - lo)),
                        lo, FALSE)

\* a < b
LessNumber(a, b) ==
  IF b.m = << >> THEN FALSE
  ELSE IF a.m = << >> THEN TRUE
  ELSE LET lo == IF a.e <= b.e THEN a.e ELSE b.e
       IN LessNat(ShiftLeft(a.m, a.e - lo), ShiftLeft(b.m, b.e - lo))

\* a * d for one digit d
RECURSIVE ScaleCarry(_, _, _)
ScaleCarry(a, d, i) ==
  IF i = 1 THEN 0
  ELSE (LimbAt(a, i - 1) * d + ScaleCarry(a, d, i - 1)) \div Limb

ScaleNat(a, d) ==
  Trim([i \in 1..(Len(a) + 1) |-> (LimbAt(a, i) * d + ScaleCarry(a, d, i)) % Limb])

\* a times the digits i and above of b
RECURSIVE MulNatFrom(_, _, _)
MulNatFrom(a, b, i) ==
  IF i > Len(b) THEN << >>
  ELSE AddNat(ScaleNat(a, b[i]), ShiftLeft(MulNatFrom(a, b, i + 1), LimbBits))

\* the value of digits below 2^31
IntOf(a) == LimbAt(a, 1) + LimbAt(a, 2) * Limb + LimbAt(a, 3) * Limb * Limb

\* Number(x) for an integer 0 <= x < 2^31
NumberOf(x) == [m |-> NatOf(x), e |-> 0]

\* the literal n/d, for 0 < d < 2^17 and n/d >= 2^-15: the quotient of n * 2^70
\* by d has more than Precision + 2 digits
Literal(n, d) ==
  LET x == ShiftLeft(NatOf(n), 70)
  IN RoundToDouble(QuotientNat(x, d), 0 - 70, RemainderFrom(x, d, 1) # 0)

\* a * b
MulNumber(a, b) ==
  IF a.m = << >> \/ b.m = << >> THEN Zero
  ELSE RoundToDouble(MulNatFrom(a.m, b.m, 1), a.e + b.e, FALSE)

\* Math.floor(a) as an integer
Floor(a) == IF a.e >= 0 THEN ShiftLeft(a.m, a.e) ELSE ShiftRight(a.m, 0 - a.e)

(* -------------------------- SchedulerService -------------------------- *)

\* the exact sum of the recommended amounts of the executions ids
RECURSIVE SumAmounts(_)
SumAmounts(ids) ==
  IF ids = {} THEN 0
  ELSE LET i == CHOOSE x \in ids : TRUE
       IN executions[i].recommendedAmount + SumAmounts(ids \ {i})

todayStart(t) == (t \div OneDay) * OneDay

\* executions of the user's strategies with status executed and executedAt >= from
ExecutedSince(u, from) ==
  {i \in DOMAIN executions :
     /\ strategies[executions[i].strategyId].exists
     /\ Owner(executions[i].strategyId) = u
     /\ executions[i].status = "executed"
     /\ executions[i].executedAt >= from}

\* todayExecutions.reduce((sum, exec) => sum + Number(exec.recommendedAmount) / 1e6,
\* sum): the values the sum may take, findMany returning the rows in any order
RECURSIVE ReduceAmounts(_, _)
ReduceAmounts(ids, sum) ==
  IF ids = {} THEN {sum}
  ELSE UNION {ReduceAmounts(ids \ {i},
                            AddNumber(sum, DivideByMillion(executions[i].recommendedAmount)))
                : i \in ids}

\* the rows checkDailyAllowance's findFirst may return
AllowancePermissions(u) ==
  MostRecent({i \in DOMAIN permissions :
                /\ permissions[i].user = u
                /\ permissions[i].permissionType = "erc20-token-periodic"
                /\ IsActivePermission(i)})

\* the result of checkDailyAllowance when findFirst returned row i (0 for no row)
\* and the reduce gave spentToday
checkDailyAllowance(i, spentToday) ==
  IF i = 0
  THEN [hasAllowance |-> FALSE, dailyLimit |-> Zero, spentToday |-> Zero]
  ELSE LET dailyLimit == DivideByMillion(permissions[i].periodAmount)
       IN [hasAllowance |-> LessNumber(spentToday, dailyLimit),
           dailyLimit |-> dailyLimit, spentToday |-> spentToday]

AllowanceRows(u) ==
  IF AllowancePermissions(u) = {} THEN {0} ELSE AllowancePermissions(u)

\* what checkDailyAllowance(userId) may return
AllowanceResults(u) ==
  {checkDailyAllowance(i, s) :
     i \in AllowanceRows(u), s \in ReduceAmounts(ExecutedSince(u, todayStart(now)), Zero)}

\* the evaluation of procs[p].strategy ends (return, or the catch of evaluateStrategy)
EndEvaluation(p, outcome, newStrategies) ==
  procs' = [procs EXCEPT ![p] =
    [@ EXCEPT !.pc = "evalEnd", !.outcome = outcome, !.inv = NoInvocation,
              !.nextCheckAfter =
                 IF newStrategies[procs[p].strategy.id].exists
                 THEN newStrategies[procs[p].strategy.id].nextCheckTime ELSE -1]]

\* all orders in which findMany may return the rows S
RECURSIVE Orders(_)
Orders(S) ==
  IF S = {} THEN {<< >>}
  ELSE UNION {{<<x>> \o q : q \in Orders(S \ {x})} : x \in S}

\* a scheduler call starts with n strategies to evaluate (the second call slot is
\* used only while the first is busy)
StartCall(p, n) ==
  /\ evaluations + n <= MaxEvals
  /\ p = "p1" \/ procs["p1"].pc # "idle"
  /\ evaluations' = evaluations + n

\* the loop of checkStrategies takes its next strategy: evaluateStrategy(strategy)
StartEvaluation(p, queue) ==
  procs' = [procs EXCEPT ![p] =
     [IdleProc EXCEPT !.pc = "allowance", !.strategy = Head(queue),
                      !.queue = Tail(queue)]]

\* @Cron(EVERY_MINUTE) checkStrategies: findDueStrategies, then the loop's first turn
\* (a tick that finds nothing due, or whose query fails, changes nothing)
CronTick(p) ==
  /\ procs[p].pc = "idle"
  /\ findDueStrategies # {}
  /\ StartCall(p, Cardinality(findDueStrategies))
  /\ \E q \in Orders({Snapshot(s) : s \in findDueStrategies}) : StartEvaluation(p, q)
  /\ UNCHANGED <<call, now, dbVars, chainVars, requests, maxNeeded>>

\* triggerStrategyCheck(strategyId): findOne, then evaluateStrategy
triggerStrategyCheck(p, s) ==
  /\ procs[p].pc = "idle"
  /\ strategies[s].exists
  /\ StartCall(p, 1)
  /\ StartEvaluation(p, <<Snapshot(s)>>)
  /\ UNCHANGED <<call, now, dbVars, chainVars, requests, maxNeeded>>

\* evaluateStrategy, lines 55-65: the allowance gate; a blocked strategy gets its
\* next check time and the evaluation returns
CheckAllowance(p) ==
  /\ procs[p].pc = "allowance"
  /\ \E readOk \in BOOLEAN, writeOk \in BOOLEAN :
       LET id == procs[p].strategy.id
       IN IF ~readOk
          THEN /\ UNCHANGED strategies
               /\ EndEvaluation(p, "exception", strategies)
          ELSE \E r \in AllowanceResults(procs[p].strategy.userId) :
                 IF r.hasAllowance
                 THEN /\ UNCHANGED strategies
                      /\ procs' = [procs EXCEPT ![p].pc = "decide"]
                 ELSE IF writeOk /\ strategies[id].exists
                 THEN /\ strategies' = updateNextCheckTime(id, procs[p].strategy.frequency)
                      /\ EndEvaluation(p, "blocked", strategies')
                 ELSE /\ UNCHANGED strategies
                      /\ EndEvaluation(p, "exception", strategies)
  /\ UNCHANGED <<call, now, evaluations, executions, nextId, permissions, sessions,
                 chainVars, requests, maxNeeded>>

\* what DecisionService.shouldExecute may return
Decisions ==
  {[shouldExecute |-> TRUE, recommendedAmount |-> a] : a \in Amounts}
    \cup {[shouldExecute |-> FALSE, recommendedAmount |-> a] : a \in {1}}

\* a row that is pending whatever the decision
alwaysPending(id, d) ==
  [strategyId |-> id, recommendedAmount |-> d.recommendedAmount, status |-> "pending",
   txHash |-> "none", errorMessage |-> "none", executedAt |-> -1]

\* the Execution row evaluateStrategy creates for decision d (lines 76-87)
NewExecution(id, d) ==
  [strategyId |-> id, recommendedAmount |-> d.recommendedAmount,
   status |-> IF d.shouldExecute THEN "pending" ELSE "skipped",
   txHash |-> "none", errorMessage |-> "none", executedAt |-> -1]

\* evaluateStrategy, lines 67-134: the decision, prisma.execution.create,
\* updateNextCheckTime, then the call of executeSwap or the return
Decide(p) ==
  /\ procs[p].pc = "decide"
  /\ \E createOk \in BOOLEAN, updateOk \in BOOLEAN, d \in Decisions :
       LET id == procs[p].strategy.id
       IN IF ~(createOk /\ strategies[id].exists)
          THEN /\ UNCHANGED <<executions, nextId, strategies>>
               /\ EndEvaluation(p, "exception", strategies)
          ELSE /\ executions' = [i \in DOMAIN executions \cup {nextId} |->
                    IF i = nextId THEN NewExecution(id, d) ELSE executions[i]]
               /\ nextId' = nextId + 1
               /\ IF ~updateOk
                  THEN /\ UNCHANGED strategies
                       /\ procs' = [procs EXCEPT ![p] =
                            [@ EXCEPT !.pc = "evalEnd", !.outcome = "exception",
                                      !.executionId = nextId,
                                      !.nextCheckAfter = strategies[id].nextCheckTime]]
                  ELSE /\ strategies' = updateNextCheckTime(id, procs[p].strategy.frequency)
                       /\ procs' = [procs EXCEPT ![p] =
                            [@ EXCEPT !.pc = IF d.shouldExecute THEN "resolve" ELSE "evalEnd",
                                      !.outcome = IF d.shouldExecute THEN "none" ELSE "skipped",
                                      !.executionId = nextId,
                                      !.nextCheckAfter =
                                         IF d.shouldExecute THEN -1
                                         ELSE strategies'[id].nextCheckTime]]
  /\ UNCHANGED <<call, now, evaluations, permissions, sessions,
                 chainVars, requests, maxNeeded>>

\* a loop that an exception of evaluateStrategy ends
stopAtException(p) ==
  /\ procs[p].pc = "evalEnd"
  /\ IF procs[p].queue = << >> \/ procs[p].outcome \in {"exception", "threw"}
     THEN procs' = [procs EXCEPT ![p] = IdleProc]
     ELSE StartEvaluation(p, procs[p].queue)
  /\ UNCHANGED <<call, now, evaluations, dbVars, chainVars, requests, maxNeeded>>

\* checkStrategies, lines 40-42: the loop's next turn, or the end of the call
NextStrategy(p) ==
  /\ procs[p].pc = "evalEnd"
  /\ IF procs[p].queue = << >>
     THEN procs' = [procs EXCEPT ![p] = IdleProc]
     ELSE StartEvaluation(p, procs[p].queue)
  /\ UNCHANGED <<call, now, evaluations, dbVars, chainVars, requests, maxNeeded>>

(* -------------------------- ExecutionService --------------------------- *)

User(p) == procs[p].strategy.userId

\* validatePermission: the active rows of one type with expiresAt > now
validPermissions(u, type) ==
  {i \in getUserPermissions(u) :
     /\ permissions[i].expiresAt > now
     /\ ~permissions[i].revoked
     /\ permissions[i].permissionType = type}

\* validatePermission: the rows that may come first after the sort by createdAt (0: null)
validatePermission(u, type) ==
  IF validPermissions(u, type) = {} THEN {0} ELSE MostRecent(validPermissions(u, type))

\* an exception inside executeSwap's try block: control goes to its catch block
Throw(p, at) ==
  procs' = [procs EXCEPT ![p].pc = "catch", ![p].inv.threwAt = at]

\* a funding step that pulls the whole amount instead of the shortfall
fullAmount(usdcAmount, usdcBalance) == usdcAmount

\* the amount executeSwap passes to transferUSDCToSessionAccount (line 772)
usdcNeeded(usdcAmount, usdcBalance) == usdcAmount - usdcBalance

\* executeSwap, lines 626-788: the execution row, the permissions, the session
\* account, the session account's balance and the funding need
ResolveContext(p) ==
  /\ procs[p].pc = "resolve"
  /\ \E dbOk \in BOOLEAN, rpcOk \in BOOLEAN,
        eth \in validatePermission(User(p), "native-token-periodic"),
        usdc \in validatePermission(User(p), "erc20-token-periodic") :
       IF ~(/\ dbOk
            /\ procs[p].executionId \in DOMAIN executions
            /\ ~(eth = 0 /\ usdc = 0)
            /\ sessions[User(p)] = "active")
       THEN /\ Throw(p, "resolve")
            /\ UNCHANGED maxNeeded
       ELSE LET usdcAmount == executions[procs[p].executionId].recommendedAmount
                usdcBalance == bal[User(p)]
                read == [NoInvocation EXCEPT !.ethPermission = (eth # 0),
                                             !.usdcPermission = (usdc # 0),
                                             !.usdcAmount = usdcAmount]
                seen == [read EXCEPT !.usdcBalance = usdcBalance]
            IN /\ maxNeeded' = [maxNeeded EXCEPT ![User(p)] = Max(@, usdcAmount)]
               /\ IF ~rpcOk
                  THEN procs' = [procs EXCEPT ![p].pc = "catch",
                            ![p].inv = [read EXCEPT !.threwAt = "balance"]]
                  ELSE IF usdcBalance >= usdcAmount
                  THEN procs' = [procs EXCEPT ![p].pc = "approve", ![p].inv = seen]
                  ELSE IF /\ usdc # 0
                          /\ wallet[User(p)] >= usdcNeeded(usdcAmount, usdcBalance)
                  THEN procs' = [procs EXCEPT ![p].pc = "fund", ![p].inv = seen]
                  ELSE procs' = [procs EXCEPT ![p].pc = "catch",
                            ![p].inv = [seen EXCEPT !.threwAt = "balance"]]
  /\ UNCHANGED <<call, now, evaluations, dbVars, chainVars, requests>>

\* the chain executes transfer(sessionAccount, amount) out of the user's wallet
TransferEffect(u, amount) ==
  /\ wallet[u] >= amount
  /\ wallet' = [wallet EXCEPT ![u] = @ - amount]
  /\ bal' = [bal EXCEPT ![u] = @ + amount]

\* executeSwap, lines 790-798: transferUSDCToSessionAccount (lines 1077-1172)
FundSessionAccount(p) ==
  /\ procs[p].pc = "fund"
  /\ LET amount == usdcNeeded(procs[p].inv.usdcAmount, procs[p].inv.usdcBalance)
         submitted == [procs[p].inv EXCEPT !.funded = @ + 1, !.fundAmount = amount]
         included == [submitted EXCEPT !.confirmed = @ \cup {"fund"}]
     IN \/ \* the gas price request or the submission fails: nothing was submitted
           /\ Throw(p, "fund")
           /\ UNCHANGED chainVars
        \/ \* submitted and confirmed
           /\ TransferEffect(User(p), amount)
           /\ procs' = [procs EXCEPT ![p].pc = "recheck", ![p].inv = included]
        \/ \* submitted, included, but the call reverted: the receipt is not inspected
           /\ procs' = [procs EXCEPT ![p].pc = "recheck", ![p].inv = included]
           /\ UNCHANGED chainVars
        \/ \* submitted, the wait for the receipt times out
           /\ procs' = [procs EXCEPT ![p].pc = "catch",
                                     ![p].inv = [submitted EXCEPT !.threwAt = "fund"]]
           /\ UNCHANGED chainVars
  /\ UNCHANGED <<call, now, evaluations, dbVars, requests, maxNeeded>>

\* the balance is read again after the transfer and not compared with the amount
readWithoutVerifying(p) ==
  /\ procs[p].pc = "recheck"
  /\ procs' = [procs EXCEPT ![p].pc = "approve",
                            ![p].inv.newUsdcBalance = bal[User(p)]]
  /\ UNCHANGED <<call, now, evaluations, dbVars, chainVars, requests, maxNeeded>>

\* executeSwap, lines 800-812: the balance is read again after the transfer
VerifyFunding(p) ==
  /\ procs[p].pc = "recheck"
  /\ \E rpcOk \in BOOLEAN :
       IF ~rpcOk THEN Throw(p, "recheck")
       ELSE IF bal[User(p)] >= procs[p].inv.usdcAmount
       THEN procs' = [procs EXCEPT ![p].pc = "approve",
                                   ![p].inv.newUsdcBalance = bal[User(p)]]
       ELSE procs' = [procs EXCEPT ![p].pc = "catch",
                                   ![p].inv.newUsdcBalance = bal[User(p)],
                                   ![p].inv.threwAt = "recheck"]
  /\ UNCHANGED <<call, now, evaluations, dbVars, chainVars, requests, maxNeeded>>

\* an approval that returns as soon as it is submitted
approveWithoutWaiting(p) ==
  /\ procs[p].pc = "approve"
  /\ procs' = [procs EXCEPT ![p].pc = "swap", ![p].inv.approved = @ + 1]
  /\ UNCHANGED <<call, now, evaluations, dbVars, chainVars, requests, maxNeeded>>

\* executeSwap, lines 817-822: approveToken (lines 1289-1368); the receipt is awaited
\* and not inspected
approveToken(p) ==
  /\ procs[p].pc = "approve"
  /\ LET submitted == [procs[p].inv EXCEPT !.approved = @ + 1]
     IN \/ \* the gas price request or the submission fails: nothing was submitted
           Throw(p, "approve")
        \/ \* submitted, the wait for the receipt times out
           procs' = [procs EXCEPT ![p].pc = "catch",
                        ![p].inv = [submitted EXCEPT !.threwAt = "approve"]]
        \/ \* submitted and included
           procs' = [procs EXCEPT ![p].pc = "swap",
                        ![p].inv = [submitted EXCEPT !.confirmed = @ \cup {"approve"}]]
  /\ UNCHANGED <<call, now, evaluations, dbVars, chainVars, requests, maxNeeded>>

\* executeSwap, lines 824-844: buildSwapCalldata and executeSwapWithSessionAccount
\* (lines 1178-1259); the receipt is awaited and not inspected
SubmitSwap(p) ==
  /\ procs[p].pc = "swap"
  /\ LET swapped == [procs[p].inv EXCEPT !.swapped = @ + 1]
         included == [swapped EXCEPT !.confirmed = @ \cup {"swap"}]
     IN \/ \* the calldata, the gas price request or the submission fails
           /\ Throw(p, "swap")
           /\ UNCHANGED chainVars
        \/ \* the swap is submitted and succeeds: the router takes the input
           /\ bal[User(p)] >= procs[p].inv.usdcAmount
           /\ bal' = [bal EXCEPT ![User(p)] = @ - procs[p].inv.usdcAmount]
           /\ procs' = [procs EXCEPT ![p].pc = "persist", ![p].inv = included]
           /\ UNCHANGED wallet
        \/ \* the swap is submitted and included, but the call reverted
           /\ procs' = [procs EXCEPT ![p].pc = "persist", ![p].inv = included]
           /\ UNCHANGED chainVars
        \/ \* the swap is submitted, the wait for its receipt times out
           /\ procs' = [procs EXCEPT ![p].pc = "catch",
                           ![p].inv = [swapped EXCEPT !.threwAt = "swap"]]
           /\ UNCHANGED chainVars
  /\ UNCHANGED <<call, now, evaluations, dbVars, requests, maxNeeded>>

\* executeSwap, lines 846-891 (the price, the amounts, the update to executed), and
\* evaluateStrategy, lines 113-121
PersistExecuted(p) ==
  /\ procs[p].pc = "persist"
  /\ \E priceOk \in BOOLEAN, dbOk \in BOOLEAN :
       IF ~priceOk
       THEN /\ Throw(p, "price")
            /\ UNCHANGED executions
       ELSE IF dbOk /\ procs[p].executionId \in DOMAIN executions
       THEN /\ executions' = [executions EXCEPT ![procs[p].executionId] =
                 [@ EXCEPT !.status = "executed", !.txHash = "swapTx",
                           !.executedAt = now]]
            /\ EndEvaluation(p, "executed", strategies)
       ELSE /\ Throw(p, "persist")
            /\ UNCHANGED executions
  /\ UNCHANGED <<call, now, evaluations, strategies, nextId, permissions, sessions,
                 chainVars, requests, maxNeeded>>

\* executeSwap, lines 892-909 (the catch block), and evaluateStrategy, lines 122-137
CatchBlock(p) ==
  /\ procs[p].pc = "catch"
  /\ \E dbOk \in BOOLEAN :
       IF dbOk /\ procs[p].executionId \in DOMAIN executions
       THEN /\ executions' = [executions EXCEPT ![procs[p].executionId] =
                 [@ EXCEPT !.status = "failed", !.errorMessage = "formatted"]]
            /\ EndEvaluation(p, "failed", strategies)
       ELSE /\ UNCHANGED executions
            /\ EndEvaluation(p, "threw", strategies)
  /\ UNCHANGED <<call, now, evaluations, strategies, nextId, permissions, sessions,
                 chainVars, requests, maxNeeded>>

(* ------------------ administration calls and the clock ----------------- *)

\* StrategiesService.activate
activate(s) ==
  /\ requests < MaxRequests
  /\ strategies[s].exists
  /\ strategies' = [strategies EXCEPT ![s].isActive = TRUE,
                       ![s].nextCheckTime = calculateNextCheckTime("daily", now)]
  /\ requests' = requests + 1
  /\ UNCHANGED <<call, now, evaluations, executions, nextId, permissions, sessions,
                 chainVars, procs, maxNeeded>>

\* StrategiesService.deactivate
deactivate(s) ==
  /\ requests < MaxRequests
  /\ strategies[s].exists
  /\ strategies' = [strategies EXCEPT ![s].isActive = FALSE]
  /\ requests' = requests + 1
  /\ UNCHANGED <<call, now, evaluations, executions, nextId, permissions, sessions,
                 chainVars, procs, maxNeeded>>

\* StrategiesService.update with a frequency in the dto
update(s, frequency) ==
  /\ requests < MaxRequests
  /\ strategies[s].exists
  /\ strategies' = [strategies EXCEPT ![s].frequency = frequency,
                       ![s].nextCheckTime = calculateNextCheckTime(frequency, now)]
  /\ requests' = requests + 1
  /\ UNCHANGED <<call, now, evaluations, executions, nextId, permissions, sessions,
                 chainVars, procs, maxNeeded>>

\* StrategiesService.delete; the Execution rows go with it (ON DELETE CASCADE)
delete(s) ==
  /\ requests < MaxRequests
  /\ strategies[s].exists
  /\ strategies' = [strategies EXCEPT ![s].exists = FALSE]
  /\ executions' = [i \in {j \in DOMAIN executions : executions[j].strategyId # s}
                      |-> executions[i]]
  /\ requests' = requests + 1
  /\ UNCHANGED <<call, now, evaluations, nextId, permissions, sessions,
                 chainVars, procs, maxNeeded>>

\* PermissionsService.storePermission
storePermission(u, type, expiresAt, periodAmount) ==
  /\ requests < MaxRequests
  /\ Len(permissions) < MaxPerms
  /\ sessions[u] # "none"
  /\ permissions' = Append(permissions,
       [user |-> u, permissionType |-> type,
        expiresAt |-> expiresAt, revoked |-> FALSE, periodAmount |-> periodAmount])
  /\ requests' = requests + 1
  /\ UNCHANGED <<call, now, evaluations, strategies, executions, nextId, sessions,
                 chainVars, procs, maxNeeded>>

\* PermissionsService.revokePermission
revokePermission(i) ==
  /\ requests < MaxRequests
  /\ i \in DOMAIN permissions
  /\ permissions' = [permissions EXCEPT ![i].revoked = TRUE]
  /\ requests' = requests + 1
  /\ UNCHANGED <<call, now, evaluations, strategies, executions, nextId, sessions,
                 chainVars, procs, maxNeeded>>

\* SessionAccountService.deactivateSessionAccount
deactivateSessionAccount(u) ==
  /\ requests < MaxRequests
  /\ sessions[u] = "active"
  /\ sessions' = [sessions EXCEPT ![u] = "inactive"]
  /\ requests' = requests + 1
  /\ UNCHANGED <<call, now, evaluations, strategies, executions, nextId, permissions,
                 chainVars, procs, maxNeeded>>

\* NotificationsGateway.handleExecutionCompleted
handleExecutionCompleted(id) ==
  /\ requests < MaxRequests
  /\ id \in DOMAIN executions
  /\ executions' = [executions EXCEPT ![id] =
       [@ EXCEPT !.status = "executed", !.txHash = "clientTx", !.executedAt = now]]
  /\ requests' = requests + 1
  /\ UNCHANGED <<call, now, evaluations, strategies, nextId, permissions, sessions,
                 chainVars, procs, maxNeeded>>

\* NotificationsGateway.handleExecutionFailed
handleExecutionFailed(id) ==
  /\ requests < MaxRequests
  /\ id \in DOMAIN executions
  /\ executions' = [executions EXCEPT ![id] =
       [@ EXCEPT !.status = "failed", !.errorMessage = "clientError"]]
  /\ requests' = requests + 1
  /\ UNCHANGED <<call, now, evaluations, strategies, nextId, permissions, sessions,
                 chainVars, procs, maxNeeded>>

AdvanceTime(t) ==
  /\ t > now
  /\ now' = t
  /\ UNCHANGED <<call, evaluations, dbVars, chainVars, procs, requests, maxNeeded>>

(* --------------------------- specification ----------------------------- *)

PermissionRows ==
  [user : Users, permissionType : PermissionTypes, expiresAt : ExpiryInputs,
   revoked : {FALSE}, periodAmount : PeriodAmountInputs]

\* the Permission tables that storePermission calls made before minute 0 leave behind
InitialPermissions ==
  UNION {[1..n -> PermissionRows] : n \in 0..MaxPerms}

\* the strategies were created five minutes before minute 0 (StrategiesService.create):
\* a 5min strategy is due at minute 0; the user has a session account
\* (SessionAccountService.createSessionAccount), which holds what an earlier day's
\* funding left on it, and has granted some permissions
Installed(rows) ==
  /\ now = 0
  /\ evaluations = 0
  /\ strategies = [s \in Strategies |->
       LET frequency == IF s = "s2" THEN "daily" ELSE "5min"
       IN [exists |-> TRUE, isActive |-> TRUE, frequency |-> frequency, userId |-> "u1",
           nextCheckTime |-> calculateNextCheckTime(frequency, 0 - FiveMinutes)]]
  /\ executions = << >>
  /\ nextId = 1
  /\ permissions = rows
  /\ sessions = [u \in Users |-> "active"]
  /\ bal = [u \in Users |-> InitialBalance]
  /\ wallet = [u \in Users |-> InitialWallet]
  /\ procs = [p \in Procs |-> IdleProc]
  /\ requests = 0
  /\ maxNeeded = [u \in Users |-> 0]

\* no pure function is under examination
NoCall == [fn |-> "none"]

Init ==
  /\ \E rows \in InitialPermissions : Installed(rows)
  /\ call = NoCall

\* the scheduler's calls, which may overlap, and the clock
Next ==
  \/ \E t \in TimePoints : AdvanceTime(t)
  \/ \E p \in Procs : CronTick(p)
  \/ \E p \in Procs, s \in Strategies : triggerStrategyCheck(p, s)
  \/ \E p \in Procs : CheckAllowance(p)
  \/ \E p \in Procs : Decide(p)
  \/ \E p \in Procs : NextStrategy(p)
  \/ \E p \in Procs : ResolveContext(p)
  \/ \E p \in Procs : FundSessionAccount(p)
  \/ \E p \in Procs : VerifyFunding(p)
  \/ \E p \in Procs : approveToken(p)
  \/ \E p \in Procs : SubmitSwap(p)
  \/ \E p \in Procs : PersistExecuted(p)
  \/ \E p \in Procs : CatchBlock(p)

Spec == Init /\ [][Next]_vars

\* one scheduler call at a time and the clock
NextSerial ==
  \/ \E t \in TimePoints : AdvanceTime(t)
  \/ CronTick("p1")
  \/ \E s \in Strategies : triggerStrategyCheck("p1", s)
  \/ CheckAllowance("p1")
  \/ Decide("p1")
  \/ NextStrategy("p1")
  \/ ResolveContext("p1")
  \/ FundSessionAccount("p1")
  \/ VerifyFunding("p1")
  \/ approveToken("p1")
  \/ SubmitSwap("p1")
  \/ PersistExecuted("p1")
  \/ CatchBlock("p1")

SpecSerial == Init /\ [][NextSerial]_vars

\* the steps of the scheduler call p once it has started: every await of
\* evaluateStrategy and executeSwap settles (confirms, fails or times out)
Pipeline(p) ==
  \/ CheckAllowance(p)
  \/ Decide(p)
  \/ NextStrategy(p)
  \/ ResolveContext(p)
  \/ FundSessionAccount(p)
  \/ VerifyFunding(p)
  \/ approveToken(p)
  \/ SubmitSwap(p)
  \/ PersistExecuted(p)
  \/ CatchBlock(p)

\* one scheduler call at a time; the cron keeps firing and a started call runs on
SpecFair == SpecSerial /\ WF_vars(CronTick("p1")) /\ WF_vars(Pipeline("p1"))

\* one scheduler call at a time, the administration calls and the gateway's messages
NextAdmin ==
  \/ \E t \in TimePoints : AdvanceTime(t)
  \/ CronTick("p1")
  \/ \E s \in Strategies : triggerStrategyCheck("p1", s)
  \/ CheckAllowance("p1")
  \/ Decide("p1")
  \/ NextStrategy("p1")
  \/ ResolveContext("p1")
  \/ FundSessionAccount("p1")
  \/ VerifyFunding("p1")
  \/ approveToken("p1")
  \/ SubmitSwap("p1")
  \/ PersistExecuted("p1")
  \/ CatchBlock("p1")
  \/ \E s \in Strategies : activate(s)
  \/ \E s \in Strategies : deactivate(s)
  \/ \E s \in Strategies, f \in FrequencyInputs : update(s, f)
  \/ \E s \in Strategies : delete(s)
  \/ \E u \in Users, t \in PermissionTypes, e \in ExpiryInputs, a \in PeriodAmountInputs :
       storePermission(u, t, e, a)
  \/ \E i \in 1..MaxPerms : revokePermission(i)
  \/ \E u \in Users : deactivateSessionAccount(u)
  \/ \E id \in 1..MaxEvals : handleExecutionCompleted(id)
  \/ \E id \in 1..MaxEvals : handleExecutionFailed(id)

SpecAdmin == Init /\ [][NextAdmin]_vars

(* ------------------- checkDailyAllowance on stored tables ---------------- *)

MaxExecutionRows == 2

AllowanceUsers == {"u1", "u2"}

\* Execution rows as earlier evaluations left them, amounts in units of 1e-6 USDC
StoredExecutions ==
  [strategyId : Strategies, recommendedAmount : {100000, 700000},
   status : {"executed", "failed"}, executedAt : TimePoints,
   txHash : {"none"}, errorMessage : {"none"}]

\* Permission rows as storePermission and revokePermission left them
StoredPermissions ==
  [user : AllowanceUsers, permissionType : PermissionTypes, expiresAt : {0, OneDay},
   revoked : BOOLEAN, periodAmount : {800000}]

\* the second day, with the tables filled; the first strategy is u1's, the second
\* one u1's or u2's
InitAllowance ==
  /\ now = OneDay
  /\ evaluations = 0
  /\ \E u \in AllowanceUsers :
       strategies = [s \in Strategies |->
         [exists |-> TRUE, isActive |-> TRUE, frequency |-> "daily",
          userId |-> IF s = "s2" THEN u ELSE "u1",
          nextCheckTime |-> calculateNextCheckTime("daily", now)]]
  /\ executions \in UNION {[1..n -> StoredExecutions] : n \in 0..MaxExecutionRows}
  /\ nextId = Len(executions) + 1
  /\ permissions \in {<< >>} \cup {<<r>> : r \in StoredPermissions}
  /\ sessions = [u \in Users |-> "active"]
  /\ bal = [u \in Users |-> InitialBalance]
  /\ wallet = [u \in Users |-> InitialWallet]
  /\ procs = [p \in Procs |-> IdleProc]
  /\ requests = 0
  /\ maxNeeded = [u \in Users |-> 0]
  /\ call = NoCall

\* checkDailyAllowance(userId) is called and returns, having read permission row i
CallCheckDailyAllowance(u) ==
  /\ call = NoCall
  /\ \E i \in AllowanceRows(u),
        s \in ReduceAmounts(ExecutedSince(u, todayStart(now)), Zero) :
       call' = [fn |-> "checkDailyAllowance", userId |-> u, permission |-> i,
                result |-> checkDailyAllowance(i, s)]
  /\ UNCHANGED <<now, evaluations, dbVars, chainVars, procs, requests, maxNeeded>>

NextAllowance == \E u \in AllowanceUsers : CallCheckDailyAllowance(u)

SpecAllowance == InitAllowance /\ [][NextAllowance]_vars

(* ------------------- IndicatorsService, DecisionService ------------------ *)

\* Indicators as integers: volatility, priceChange24h in percent, volumeRatio in
\* units, liquidityScore in hundredths
Trends == {"bullish", "bearish", "neutral"}

Snapshots ==
  [volatility : {1, 2, 11}, trend : Trends, priceChange24h : {-11, -10, -6, -5, -4},
   liquidityScore : {20, 21, 29, 30, 75, 81}, volumeRatio : {1, 3}]

NoSnapshot ==
  [volatility |-> 0, trend |-> "neutral", priceChange24h |-> 0, liquidityScore |-> 0,
   volumeRatio |-> 0]

\* What the feeds answer: getCurrentPrice (in analyzeMarket, and again in
\* shouldExecute) returns a price, returns null or throws; getHistoricalPrices(24)
\* returns prices, returns none or throws; get24hVolume returns or throws
FeedAnswers ==
  [price : {"ok", "null", "throws"}, prices24h : {"some", "empty", "throws"},
   volume : {"ok", "throws"}, priceAgain : {"ok", "null", "throws"}]

DecisionBaseAmounts == {1, 3, 1000000}

DecisionStrategies ==
  [baseAmount : DecisionBaseAmounts, enableSmartSizing : BOOLEAN,
   enableVolatilityAdjustment : BOOLEAN, enableLiquidityCheck : BOOLEAN]

\* only a throwing feed makes analyzeMarket throw
feedThrows(feeds) ==
  feeds.price = "throws" \/ feeds.prices24h = "throws" \/ feeds.volume = "throws"

\* analyzeMarket(pairId): TRUE iff it throws
analyzeMarketThrows(feeds) ==
  \/ feeds.price = "throws" \/ feeds.prices24h = "throws" \/ feeds.volume = "throws"
  \/ feeds.price = "null"
  \/ feeds.prices24h = "empty"

\* shouldBuy, lines 115-155: the score in tenths (the sums of doubles and the exact
\* sums are on the same side of 0.4 on every path)
buyScore(indicators) ==
  5 + (IF indicators.volatility < 2 THEN 1
       ELSE IF indicators.volatility > 10 THEN -2 ELSE 0)
    + (IF indicators.trend = "bullish" THEN 2
       ELSE IF indicators.trend = "bearish" THEN 1 ELSE 0)
    + (IF indicators.priceChange24h < -5 THEN 3 ELSE 0)
    + (IF indicators.liquidityScore < 30 THEN -2
       ELSE IF indicators.liquidityScore > 70 THEN 1 ELSE 0)
    + (IF indicators.volumeRatio > 2 THEN -1 ELSE 0)

\* a score of 0.4 is enough to buy
buyAtThreshold(indicators) ==
  [should |-> buyScore(indicators) >= 4,
   confidence |-> Max(0, Min(10, buyScore(indicators)))]

\* shouldBuy(indicators)
shouldBuy(indicators) ==
  [should |-> buyScore(indicators) > 4,
   confidence |-> Max(0, Min(10, buyScore(indicators)))]

\* the value as it is, whatever the limits
unclamped(value, min, max) == value

\* Math.max(min, Math.min(max, value))
clamp(value, min, max) ==
  LET least == IF LessNumber(max, value) THEN max ELSE value
  IN IF LessNumber(least, min) THEN min ELSE least

\* calculateSmartAmount, lines 100-108: the factor of the volatility adjustment
\* (1 where the code leaves the multiplier as it is)
volatilityAdjustment(indicators, strategy) ==
  IF strategy.enableVolatilityAdjustment /\ indicators.volatility < 2 THEN Literal(11, 10)
  ELSE IF strategy.enableVolatilityAdjustment /\ indicators.volatility > 10
    THEN Literal(7, 10)
  ELSE NumberOf(1)

\* calculateSmartAmount, lines 111-115: the factor of the price dip adjustment
dipAdjustment(indicators) ==
  IF indicators.priceChange24h < -10 THEN Literal(13, 10)
  ELSE IF indicators.priceChange24h < -5 THEN Literal(115, 100)
  ELSE NumberOf(1)

\* calculateSmartAmount, lines 118-124: the factor of the liquidity adjustment
liquidityAdjustment(indicators, strategy) ==
  IF strategy.enableLiquidityCheck /\ indicators.liquidityScore < 30 THEN Literal(1, 2)
  ELSE IF strategy.enableLiquidityCheck /\ indicators.liquidityScore > 80
    THEN Literal(11, 10)
  ELSE NumberOf(1)

\* multiplier = 1.0, multiplied by the three factors in turn, then clamped
clampedProduct(volatility, dip, liquidity) ==
  clamp(MulNumber(MulNumber(MulNumber(NumberOf(1), volatility), dip), liquidity),
        Literal(1, 2), Literal(2, 1))

\* the multiplier calculateSmartAmount applies
smartMultiplier(indicators, strategy) ==
  clampedProduct(volatilityAdjustment(indicators, strategy), dipAdjustment(indicators),
                 liquidityAdjustment(indicators, strategy))

\* BigInt(Math.floor(Number(baseAmount) * multiplier))
calculateSmartAmount(baseAmount, indicators, strategy) ==
  IntOf(Floor(MulNumber(NumberOf(baseAmount), smartMultiplier(indicators, strategy))))

\* no liquidity floor
anyLiquidity(indicators) == TRUE

\* indicators.liquidityScore > 0.2
aboveLiquidityFloor(indicators) == indicators.liquidityScore > 20

\* the decision of the two failure branches
NoExecution(reason) ==
  [threw |-> FALSE, shouldExecute |-> FALSE, recommendedAmount |-> 0, confidence |-> 0,
   reason |-> reason]

\* DecisionService.shouldExecute(strategy)
shouldExecute(strategy, feeds, indicators) ==
  IF analyzeMarketThrows(feeds) \/ feeds.priceAgain = "throws" THEN NoExecution("error")
  ELSE IF feeds.priceAgain = "null" THEN NoExecution("no price")
  ELSE LET buyDecision == shouldBuy(indicators)
       IN [threw |-> FALSE,
           shouldExecute |-> buyDecision.should /\ aboveLiquidityFloor(indicators),
           recommendedAmount |->
             IF strategy.enableSmartSizing
               THEN calculateSmartAmount(strategy.baseAmount, indicators, strategy)
             ELSE strategy.baseAmount,
           confidence |-> buyDecision.confidence,
           reason |-> "buy decision"]

\* shouldExecute(strategy) is called and returns; the snapshot exists when
\* analyzeMarket returns
CallShouldExecute(strategy, feeds) ==
  /\ call = NoCall
  /\ \E indicators \in IF analyzeMarketThrows(feeds) THEN {NoSnapshot} ELSE Snapshots :
       call' = [fn |-> "shouldExecute", strategy |-> strategy, feeds |-> feeds,
                indicators |-> indicators,
                result |-> shouldExecute(strategy, feeds, indicators)]
  /\ UNCHANGED <<now, evaluations, dbVars, chainVars, procs, requests, maxNeeded>>

NextDecision ==
  \E strategy \in DecisionStrategies, feeds \in FeedAnswers :
    CallShouldExecute(strategy, feeds)

InitDecision ==
  /\ Installed(<< >>)
  /\ call = NoCall

SpecDecision == InitDecision /\ [][NextDecision]_vars

(* -------------------- IndicatorsService on market data ------------------- *)

\* the snapshots shouldBuy is called with, on both sides of every threshold
BuySnapshots ==
  [volatility : {1, 2, 10, 11}, trend : Trends, priceChange24h : {-6, -5, -4},
   liquidityScore : {29, 30, 70, 71}, volumeRatio : {1, 2, 3}]

CallShouldBuy(indicators) ==
  /\ call = NoCall
  /\ call' = [fn |-> "shouldBuy", indicators |-> indicators,
              result |-> shouldBuy(indicators)]
  /\ UNCHANGED <<now, evaluations, dbVars, chainVars, procs, requests, maxNeeded>>

\* hourly prices of the feed: n prices, the oldest one and the later ones
MarketPrices == {1, 2}

PriceSeries(lengths) ==
  {[i \in 1..n |-> IF i = 1 THEN first ELSE rest] :
     n \in lengths, first \in MarketPrices, rest \in MarketPrices}

\* the swaps of the last 24 hours, as get24hVolume receives them
MaxSwaps == 2

SwapAmounts == [amount0 : {-3, 0}, amount1 : {-3, 0}]

SwapSeries == UNION {[1..n -> SwapAmounts] : n \in 0..MaxSwaps}

\* values.slice(-period).reduce((acc, val) => acc + val, 0)
RECURSIVE SumLast(_, _)
SumLast(values, period) ==
  IF period = 0 THEN 0
  ELSE values[Len(values) - period + 1] + SumLast(values, period - 1)

\* calculateMovingAverage(values, period): null, or the double sum / period
calculateMovingAverage(values, period) ==
  IF Len(values) < period THEN [isNull |-> TRUE, value |-> Zero]
  ELSE [isNull |-> FALSE, value |-> Literal(SumLast(values, period), period)]

\* !ma: null and 0 are falsy
Falsy(ma) == ma.isNull \/ ma.value.m = << >>

\* the trend of the averages alone, whatever the price
trendOfAverages(currentPrice, ma7, ma30) ==
  IF Falsy(ma7) \/ Falsy(ma30) THEN "neutral"
  ELSE IF LessNumber(ma30.value, ma7.value) THEN "bullish"
  ELSE IF LessNumber(ma7.value, ma30.value) THEN "bearish"
  ELSE "neutral"

\* determineTrend(currentPrice, ma7, ma30)
determineTrend(currentPrice, ma7, ma30) ==
  IF Falsy(ma7) \/ Falsy(ma30) THEN "neutral"
  ELSE IF LessNumber(ma30.value, ma7.value) /\ LessNumber(ma7.value, currentPrice)
    THEN "bullish"
  ELSE IF LessNumber(ma7.value, ma30.value) /\ LessNumber(currentPrice, ma7.value)
    THEN "bearish"
  ELSE "neutral"

\* calculateTotalVolume(swaps)
Abs(x) == IF x < 0 THEN 0 - x ELSE x

RECURSIVE calculateTotalVolume(_, _)
calculateTotalVolume(swaps, n) ==
  IF n = 0 THEN 0
  ELSE calculateTotalVolume(swaps, n - 1) + Abs(swaps[n].amount0) + Abs(swaps[n].amount1)

\* get24hVolume(): volume24h and swapCount of the swaps of the last 24 hours
get24hVolume(swaps) ==
  [volume24h |-> calculateTotalVolume(swaps, Len(swaps)), swapCount |-> Len(swaps)]

\* the volume over an average of 1
ratioToUnit(volumeData) ==
  IF volumeData.swapCount > 0 THEN [num |-> volumeData.volume24h, den |-> 1]
  ELSE [num |-> 1, den |-> 1]

\* analyzeMarket, lines 56-58: volume24h / avgVolume as a fraction
volumeRatioOf(volumeData) ==
  LET avgVolume == IF volumeData.volume24h > 0 THEN volumeData.volume24h ELSE 1
  IN IF volumeData.swapCount > 0 THEN [num |-> volumeData.volume24h, den |-> avgVolume]
     ELSE [num |-> 1, den |-> 1]

\* analyzeMarket(pairId) on feeds that answer: the moving averages, the trend and
\* the volume ratio of the snapshot
analyzeMarket(currentPrice, prices7d, prices30d, swaps) ==
  LET ma7 == calculateMovingAverage(prices7d, 7)
      ma30 == calculateMovingAverage(prices30d, 30)
  IN [ma7 |-> ma7, ma30 |-> ma30,
      trend |-> determineTrend(NumberOf(currentPrice), ma7, ma30),
      volumeRatio |-> volumeRatioOf(get24hVolume(swaps))]

CallAnalyzeMarket(currentPrice, prices7d, prices30d, swaps) ==
  /\ call = NoCall
  /\ call' = [fn |-> "analyzeMarket", currentPrice |-> currentPrice,
              prices7d |-> prices7d, prices30d |-> prices30d, swaps |-> swaps,
              result |-> analyzeMarket(currentPrice, prices7d, prices30d, swaps)]
  /\ UNCHANGED <<now, evaluations, dbVars, chainVars, procs, requests, maxNeeded>>

NextIndicators ==
  \/ \E indicators \in BuySnapshots : CallShouldBuy(indicators)
  \/ \E currentPrice \in {1, 2, 3}, prices7d \in PriceSeries({0, 6, 7, 8}),
        prices30d \in PriceSeries({29, 30, 31}), swaps \in SwapSeries :
       CallAnalyzeMarket(currentPrice, prices7d, prices30d, swaps)

SpecIndicators == InitDecision /\ [][NextIndicators]_vars

(* ------------------------ IndexerService.getPoolLiquidity --------------- *)

\* PoolManager_ModifyLiquidity events: the delta, and whether the timestamp is within
\* the last 24 hours, within the last 7 days, or older
LiquidityEvents == [liquidityDelta : {-100, 50, 100}, age : {"24h", "7d", "older"}]

MaxLiquidityEvents == 3

\* liquidityEvents.reduce((sum, e) => sum + BigInt(e.liquidityDelta), 0n) over the
\* events whose age is in ages
RECURSIVE NetFlow(_, _, _)
NetFlow(events, ages, n) ==
  IF n = 0 THEN 0
  ELSE NetFlow(events, ages, n - 1)
         + (IF events[n].age \in ages THEN events[n].liquidityDelta ELSE 0)

\* A score is the fraction num/den, den > 0.
\* Math.max(0, Math.min(1, liquidityScore))
ClampScore(score) ==
  IF score.num <= 0 THEN [num |-> 0, den |-> 1]
  ELSE IF score.num >= score.den THEN [num |-> 1, den |-> 1]
  ELSE score

\* getPoolLiquidity, lines 290-302: 0.5, and with totalLiquidity > 0 the clamped
\* 0.5 + (flow24hPercent * 0.06 + flow7dPercent * 0.04), where a flow percent is
\* netFlow / totalLiquidity * 100: (total + 12 * netFlow24h + 8 * netFlow7d) / (2 * total)
FlowScore(totalLiquidity, netFlow24h, netFlow7d) ==
  IF totalLiquidity > 0
  THEN ClampScore([num |-> totalLiquidity + 12 * netFlow24h + 8 * netFlow7d,
                   den |-> 2 * totalLiquidity])
  ELSE [num |-> 1, den |-> 2]

\* getPoolLiquidity(); a failing request ends in the catch
getPoolLiquidity(events, requestOk) ==
  IF requestOk
  THEN LET totalLiquidity == NetFlow(events, {"24h", "7d", "older"}, Len(events))
       IN [totalLiquidity |-> totalLiquidity,
           liquidityScore |-> FlowScore(totalLiquidity,
                                        NetFlow(events, {"24h"}, Len(events)),
                                        NetFlow(events, {"24h", "7d"}, Len(events)))]
  ELSE [totalLiquidity |-> 0, liquidityScore |-> [num |-> 0, den |-> 1]]

CallGetPoolLiquidity(events, requestOk) ==
  /\ call = NoCall
  /\ call' = [fn |-> "getPoolLiquidity", events |-> events, requestOk |-> requestOk,
              result |-> getPoolLiquidity(events, requestOk)]
  /\ UNCHANGED <<now, evaluations, dbVars, chainVars, procs, requests, maxNeeded>>

NextLiquidity ==
  \E events \in UNION {[1..n -> LiquidityEvents] : n \in 0..MaxLiquidityEvents},
     requestOk \in BOOLEAN :
    CallGetPoolLiquidity(events, requestOk)

SpecLiquidity == InitDecision /\ [][NextLiquidity]_vars

(* ----------------------- the amounts of a confirmed swap ---------------- *)

\* The logs of a transaction receipt: the contract that emitted the log, its first
\* topic, the recipient and the value in its data
ReceiptLogs ==
  [address : {"usdc", "weth", "other"}, topic : {"Transfer", "other"},
   to : {"account", "elsewhere"}, value : {1, 2, 3}]

\* the WETH Transfer of amountOut to the smart account that the swap emits
SwapOutputLog(amountOut) ==
  [address |-> "weth", topic |-> "Transfer", to |-> "account", value |-> amountOut]

\* the receipts of a confirmed swap with output amountOut: the swap's log, after and
\* before at most one other log each
SwapReceipts(amountOut) ==
  LET others == {<< >>} \cup {<<l>> : l \in ReceiptLogs}
  IN {before \o <<SwapOutputLog(amountOut)>> \o after : before \in others, after \in others}

\* getSwapAmountsFromTx, lines 1434-1453: the loop over the first n logs; null is 0
RECURSIVE AmountsAfter(_, _)
AmountsAfter(logs, n) ==
  IF n = 0 THEN [actualUsdcIn |-> 0, actualWethOut |-> 0]
  ELSE LET found == AmountsAfter(logs, n - 1)
           log == logs[n]
       IN IF log.topic # "Transfer" THEN found
          ELSE [actualUsdcIn |-> IF log.address = "usdc" THEN log.value
                                 ELSE found.actualUsdcIn,
                actualWethOut |-> IF log.address = "weth" THEN log.value
                                  ELSE found.actualWethOut]

\* getSwapAmountsFromTx(txHash, publicClient); a failing getTransactionReceipt ends
\* in the catch
getSwapAmountsFromTx(logs, receiptOk) ==
  IF receiptOk THEN AmountsAfter(logs, Len(logs))
  ELSE [actualUsdcIn |-> 0, actualWethOut |-> 0]

\* executeSwap, lines 850-882: the amounts are read from the receipt and the record
\* is updated to executed (wethAmountOut 0: the column stays null)
CallReconcile(amount, amountOut, logs, receiptOk) ==
  /\ call = NoCall
  /\ call' = [fn |-> "reconcile", recommendedAmount |-> amount, amountOut |-> amountOut,
              logs |-> logs, receiptOk |-> receiptOk,
              record |-> [status |-> "executed",
                          wethAmountOut |->
                            getSwapAmountsFromTx(logs, receiptOk).actualWethOut]]
  /\ UNCHANGED <<now, evaluations, dbVars, chainVars, procs, requests, maxNeeded>>

NextReconcile ==
  \E amount \in Amounts, amountOut \in {1, 2}, receiptOk \in BOOLEAN :
    \E logs \in SwapReceipts(amountOut) : CallReconcile(amount, amountOut, logs, receiptOk)

SpecReconcile == InitDecision /\ [][NextReconcile]_vars

(* ----------------------------- error-formatter -------------------------- *)

\* formatErrorMessage, lines 49-79: the messages of the plain-text patterns, in the
\* order in which they are tested
PlainMessages ==
  <<"Daily spending limit reached. Please grant a new permission to continue trading.",
    "Insufficient balance in your wallet. Please add more funds.",
    "Token transfer failed. Please check your token balance and approvals.",
    "Swap failed due to price slippage. Try increasing slippage tolerance.",
    "Transaction ran out of gas. Please try again.",
    "Transaction was cancelled by user.",
    "Transaction nonce error. Please try again.",
    "Permission has expired. Please grant a new permission.">>

\* mapContractError, lines 93-108: the messages of errorMap, in the order of its keys
ContractMessages ==
  <<"Daily spending limit reached. Please grant a new permission to continue trading.",
    "Invalid transaction format. Please try again.",
    "Permission is invalid or has been revoked.",
    "Permission has expired. Please grant a new permission.",
    "You are not authorized to perform this action.",
    "Token allowance is insufficient. Please approve more tokens.",
    "Insufficient token balance in your wallet.">>

GenericMessage == "Transaction failed. Please try again or contact support."

\* the error text itself, and the decoded revert string made readable
RawMessage == "errorMessage"

ReadableContractError == "contractError, spaced"

\* sets of at most two elements
AtMostTwo(S) == {T \in SUBSET S : Cardinality(T) <= 2}

\* An error message: the plain-text patterns it contains, whether it is longer than
\* 100 characters, and the revert data in it: none, hex data that parseHexError does
\* not decode, or an Error(string) with the errorMap keys the string contains
ErrorMessages ==
  [patterns : AtMostTwo(DOMAIN PlainMessages), long : BOOLEAN,
   revert : {[kind |-> "none", keys |-> {}], [kind |-> "undecoded", keys |-> {}]}
              \cup {[kind |-> "decoded", keys |-> K] : K \in AtMostTwo(DOMAIN ContractMessages)}]

\* the first of the indices S
First(S) == CHOOSE i \in S : \A j \in S : i <= j

\* mapContractError(contractError)
mapContractError(keys) ==
  IF keys # {} THEN ContractMessages[First(keys)] ELSE ReadableContractError

\* formatErrorMessage(error)
formatErrorMessage(error) ==
  IF error.revert.kind = "decoded" THEN mapContractError(error.revert.keys)
  ELSE IF error.patterns # {} THEN PlainMessages[First(error.patterns)]
  ELSE IF error.long THEN GenericMessage
  ELSE RawMessage

\* executeSwap's catch block, lines 892-909: the error is formatted and stored
CallFormatErrorMessage(error) ==
  /\ call = NoCall
  /\ call' = [fn |-> "formatErrorMessage", error |-> error,
              errorMessage |-> formatErrorMessage(error)]
  /\ UNCHANGED <<now, evaluations, dbVars, chainVars, procs, requests, maxNeeded>>

NextFormat == \E error \in ErrorMessages : CallFormatErrorMessage(error)

SpecFormat == InitDecision /\ [][NextFormat]_vars

(* ------------------------ the authoritative permission ------------------- *)

\* Permission rows with their expiry before, at and after the second day's start
SelectionRows ==
  [user : AllowanceUsers, permissionType : PermissionTypes,
   expiresAt : {0, OneDay, OneDay + OneHour}, revoked : BOOLEAN,
   periodAmount : PeriodAmountInputs]

InitSelection ==
  /\ \E rows \in UNION {[1..n -> SelectionRows] : n \in 0..MaxPerms} : Installed(rows)
  /\ call = NoCall

\* validatePermission(userId) is called by executeSwap and returns row i of this type
CallValidatePermission(u, type) ==
  /\ call = NoCall
  /\ \E i \in validatePermission(u, type) :
       call' = [fn |-> "validatePermission", userId |-> u, permissionType |-> type,
                permission |-> i]
  /\ UNCHANGED <<now, evaluations, dbVars, chainVars, procs, requests, maxNeeded>>

NextSelection ==
  \/ \E t \in TimePoints : AdvanceTime(t)
  \/ \E u \in Users, t \in PermissionTypes, e \in ExpiryInputs, a \in PeriodAmountInputs :
       storePermission(u, t, e, a)
  \/ \E i \in 1..MaxPerms : revokePermission(i)
  \/ \E u \in AllowanceUsers : CallCheckDailyAllowance(u)
  \/ \E u \in AllowanceUsers, t \in PermissionTypes : CallValidatePermission(u, t)

SpecSelection == InitSelection /\ [][NextSelection]_vars

(* ------------------------------ properties ------------------------------ *)

TerminalStatuses == {"executed", "failed", "skipped"}

\* the executeSwap call of p has resolved its session account and has not returned
InFlight(p) == procs[p].pc \in {"fund", "recheck", "approve", "swap", "persist"}

\* C1: a record whose status is executed, failed or skipped keeps its status, txHash
\* and errorMessage in every step of the system
C1_TerminalRecordsAreImmutable ==
  [][\A i \in DOMAIN executions :
       (executions[i].status \in TerminalStatuses /\ i \in DOMAIN executions')
         => /\ executions'[i].status = executions[i].status
            /\ executions'[i].txHash = executions[i].txHash
            /\ executions'[i].errorMessage = executions[i].errorMessage]_vars

\* C2: two executeSwap pipelines are in flight at once only for different users
C2_OnePipelinePerDelegate ==
  \A p, q \in Procs : (p # q /\ InFlight(p) /\ InFlight(q)) => User(p) # User(q)

\* the user's executed executions whose executedAt falls in the UTC day starting at day
ExecutedInDay(u, day) ==
  {i \in ExecutedSince(u, day) : executions[i].executedAt < day + OneDay}

\* C3: per user and UTC day, the executed amounts sum to at most the period amount of
\* the user's most recent active erc20-token-periodic permission
C3_DailyLimitRespected ==
  \A u \in Users, day \in TimePoints :
    \A i \in AllowancePermissions(u) :
      SumAmounts(ExecutedInDay(u, day)) <= permissions[i].periodAmount

\* what delegated transfers have moved out of the user's wallet so far
moved(u) == InitialWallet - wallet[u]

\* C4: while no swap has consumed the session account's balance, the delegated
\* transfers have moved at most the largest amount any invocation needed minus the
\* session account's initial balance
C4_FundingIsIdempotent ==
  \A u \in Users :
    bal[u] = InitialBalance + moved(u)
      => moved(u) <= Max(0, maxNeeded[u] - InitialBalance)

\* the executeSwap call of p has read the session account's balance and is past the
\* point where it submits the funding transfer
PastFunding(p) ==
  /\ procs[p].pc \in {"recheck", "approve", "swap", "persist", "catch"}
  /\ procs[p].inv.usdcBalance >= 0

\* C5: within one executeSwap invocation at most one funding transfer is submitted;
\* one is submitted only when the balance read is below the amount needed, and its
\* amount is the amount needed minus that balance; none is submitted when the
\* permission is missing or the wallet is short; the invocation goes on to the
\* approval and the swap with a short balance only after submitting exactly one
C5_FundingTransfers ==
  \A p \in Procs :
    LET inv == procs[p].inv
    IN /\ inv.funded <= 1
       /\ inv.funded = 1 =>
            /\ 0 <= inv.usdcBalance
            /\ inv.usdcBalance < inv.usdcAmount
            /\ inv.fundAmount = inv.usdcAmount - inv.usdcBalance
       /\ (procs[p].pc = "catch" /\ inv.threwAt = "balance") => inv.funded = 0
       /\ (procs[p].pc \in {"recheck", "approve", "swap", "persist"}
             /\ inv.usdcBalance < inv.usdcAmount) => inv.funded = 1

\* an invocation has submitted a funding transfer of a shortfall that is less than
\* the amount needed
C5_ShortfallFunded ==
  \E p \in Procs :
    /\ procs[p].pc = "recheck"
    /\ procs[p].inv.funded = 1
    /\ procs[p].inv.usdcBalance > 0
    /\ procs[p].inv.fundAmount < procs[p].inv.usdcAmount

\* C5 as stated: once an invocation is past its funding step, it has submitted exactly
\* one transfer of the shortfall if the balance read was below the amount needed, and
\* none otherwise
C5_ExactlyOneTransferWhenShort ==
  \A p \in Procs :
    PastFunding(p) =>
      IF procs[p].inv.usdcBalance < procs[p].inv.usdcAmount
      THEN /\ procs[p].inv.funded = 1
           /\ procs[p].inv.fundAmount = procs[p].inv.usdcAmount - procs[p].inv.usdcBalance
      ELSE procs[p].inv.funded = 0

\* C6: an invocation that resolved its context without a valid native-token permission
\* or without a valid erc20 permission is on its way to FAILED and has submitted no
\* transfer, approval or swap
C6_MissingPermissionIsHardFailure ==
  \A p \in Procs :
    (/\ procs[p].inv.usdcAmount > 0
     /\ ~(procs[p].inv.ethPermission /\ procs[p].inv.usdcPermission))
      => /\ procs[p].pc = "catch"
         /\ procs[p].inv.funded = 0
         /\ procs[p].inv.approved = 0
         /\ procs[p].inv.swapped = 0

\* nothing was submitted after the step that threw
NoLaterStep(inv) ==
  /\ inv.threwAt \in {"resolve", "balance"} => inv.funded = 0
  /\ inv.threwAt \in {"resolve", "balance", "fund", "recheck"} => inv.approved = 0
  /\ inv.threwAt \in {"resolve", "balance", "fund", "recheck", "approve"} => inv.swapped = 0

\* C7: when a step of executeSwap has thrown, nothing later was submitted, and the
\* invocation ends by returning a failure with the record FAILED and an error message
C7_FailureIsPersisted ==
  \A p \in Procs :
    /\ procs[p].pc = "catch" => NoLaterStep(procs[p].inv)
    /\ (procs[p].pc = "evalEnd" /\ procs[p].outcome \in {"failed", "threw"})
         => /\ procs[p].outcome = "failed"
            /\ procs[p].executionId \in DOMAIN executions
            /\ executions[procs[p].executionId].status = "failed"
            /\ executions[procs[p].executionId].errorMessage # "none"

\* C8: no executeSwap call ends by throwing to its caller
C8_ExecuteSwapNeverThrows ==
  \A p \in Procs : procs[p].outcome # "threw"

\* C9: every record that is pending is later executed or failed
C9_PendingIsSettled ==
  \A i \in 1..MaxEvals :
    (i \in DOMAIN executions /\ executions[i].status = "pending")
      ~> (i \in DOMAIN executions /\ executions[i].status \in {"executed", "failed"})

\* C10: at the end of an evaluation the strategy's stored nextCheckTime is greater than
\* the one the evaluation started from
C10_NextCheckTimeIncreases ==
  \A p \in Procs :
    (procs[p].pc = "evalEnd" /\ procs[p].nextCheckAfter # -1)
      => procs[p].nextCheckAfter > procs[p].strategy.nextCheckTime

CappedSpendPermissions(u) ==
  {i \in DOMAIN permissions :
     /\ permissions[i].user = u
     /\ permissions[i].permissionType = "erc20-token-periodic"
     /\ permissions[i].expiresAt >= now
     /\ ~permissions[i].revoked}

UnexpiredPermissions(u, type) ==
  {i \in DOMAIN permissions :
     /\ permissions[i].user = u
     /\ permissions[i].permissionType = type
     /\ permissions[i].expiresAt > now
     /\ ~permissions[i].revoked}

\* the user's permissions of a type that are not revoked and expire now or later
InForcePermissions(u, type) ==
  {i \in DOMAIN permissions :
     /\ permissions[i].user = u
     /\ permissions[i].permissionType = type
     /\ permissions[i].expiresAt >= now
     /\ ~permissions[i].revoked}

\* the last created row of S, 0 when there is none
LastCreated(S) == IF S = {} THEN 0 ELSE CHOOSE i \in S : \A j \in S : j <= i

FeedFailed(feeds) ==
  \/ feeds.price \in {"null", "throws"}
  \/ feeds.prices24h \in {"empty", "throws"}
  \/ feeds.volume = "throws"
  \/ feeds.priceAgain \in {"null", "throws"}

\* C14: shouldExecute returns a decision whatever its collaborators answer, and
\* when one of them failed the decision has shouldExecute = false,
\* recommendedAmount = 0 and confidence = 0
C14_DecisionIsTotal ==
  call.fn = "shouldExecute" =>
    /\ ~call.result.threw
    /\ FeedFailed(call.feeds) =>
         /\ ~call.result.shouldExecute
         /\ call.result.recommendedAmount = 0
         /\ call.result.confidence = 0

\* shouldExecute was called with an empty 24h history and returned
C14_EmptyHistory ==
  /\ call.fn = "shouldExecute"
  /\ call.feeds = [price |-> "ok", prices24h |-> "empty", volume |-> "ok",
                   priceAgain |-> "ok"]
  /\ call.result = NoExecution("error")

\* the decision came from the snapshot with smart sizing enabled
SmartSized ==
  /\ call.fn = "shouldExecute"
  /\ call.strategy.enableSmartSizing
  /\ ~FeedFailed(call.feeds)

\* C15: with smart sizing enabled the multiplier is within [0.5, 2.0] and
\* floor(0.5 * baseAmount) <= recommendedAmount <= 2.0 * baseAmount
C15_AmountWithinFlooredBounds ==
  SmartSized =>
    LET multiplier == smartMultiplier(call.indicators, call.strategy)
    IN /\ ~LessNumber(multiplier, Literal(1, 2))
       /\ ~LessNumber(Literal(2, 1), multiplier)
       /\ call.strategy.baseAmount \div 2 <= call.result.recommendedAmount
       /\ call.result.recommendedAmount <= 2 * call.strategy.baseAmount

\* smart sizing with the product of the adjustments below 0.5: high volatility
\* (x0.7) and low liquidity (x0.5), both toggles on, and an odd base amount
C15_ClampedToHalf ==
  /\ SmartSized
  /\ call.strategy.enableVolatilityAdjustment /\ call.indicators.volatility > 10
  /\ call.strategy.enableLiquidityCheck /\ call.indicators.liquidityScore < 30
  /\ call.indicators.priceChange24h >= -5
  /\ call.strategy.baseAmount = 3
  /\ call.result.recommendedAmount = 1

\* C15 as stated: 0.5 * baseAmount <= recommendedAmount <= 2.0 * baseAmount
C15_AmountWithinBounds ==
  SmartSized =>
    /\ call.strategy.baseAmount <= 2 * call.result.recommendedAmount
    /\ call.result.recommendedAmount <= 2 * call.strategy.baseAmount

\* C16: a decision has shouldExecute = false whenever liquidityScore <= 0.2
C16_LowLiquidityVetoes ==
  (call.fn = "shouldExecute" /\ call.indicators.liquidityScore <= 20) =>
    ~call.result.shouldExecute

\* a snapshot with liquidityScore = 0.2 whose buy score is above 0.4 was refused
C16_VetoedBuy ==
  /\ call.fn = "shouldExecute"
  /\ ~FeedFailed(call.feeds)
  /\ call.indicators.liquidityScore = 20
  /\ shouldBuy(call.indicators).should
  /\ ~call.result.shouldExecute

\* the strategies waiting in the loop of scheduler call p
Queued(p) == {procs[p].queue[i].id : i \in 1..Len(procs[p].queue)}

\* C17: a tick starts the evaluation of one due strategy and queues all the others;
\* whatever the outcome of an evaluation, the loop goes on with the next strategy of
\* the queue; and every queued strategy is eventually evaluated
C17_EveryDueStrategyIsEvaluated ==
  /\ [][/\ (procs["p1"].pc = "idle" /\ procs'["p1"].pc # "idle")
            => \/ {procs'["p1"].strategy.id} \cup Queued("p1")' = findDueStrategies
               \/ /\ evaluations' = evaluations + 1
                  /\ procs'["p1"].queue = << >>
        /\ (procs["p1"].pc = "evalEnd" /\ procs["p1"].queue # << >>
              /\ procs'["p1"] # procs["p1"])
            => /\ procs'["p1"].pc = "allowance"
               /\ procs'["p1"].strategy = Head(procs["p1"].queue)
               /\ procs'["p1"].queue = Tail(procs["p1"].queue)]_vars
  /\ \A s \in Strategies :
       (s \in Queued("p1")) ~> (procs["p1"].pc = "allowance" /\ procs["p1"].strategy.id = s)

\* the evaluation of one strategy ended in the catch of evaluateStrategy while
\* another strategy of the same tick is waiting
C17_ExceptionBeforeNext ==
  /\ procs["p1"].pc = "evalEnd"
  /\ procs["p1"].outcome \in {"exception", "threw"}
  /\ procs["p1"].queue # << >>

\* C18: the executed record of a swap whose logs, once read, report the output
\* amountOut has wethAmountOut = amountOut
C18_PersistedOutputIsReported ==
  (call.fn = "reconcile" /\ call.receiptOk) =>
    call.record.wethAmountOut = call.amountOut

\* the curated messages of the signatures the error matches, in its text or in its
\* decoded revert string
CuratedFor(error) ==
  {PlainMessages[i] : i \in error.patterns}
    \cup {ContractMessages[i] : i \in error.revert.keys}

\* C19: an error that matches a known signature is persisted as a curated message of
\* a signature it matches, and an error that matches none is persisted as the
\* generic message
C19_CuratedOrGeneric ==
  call.fn = "formatErrorMessage" =>
    IF CuratedFor(call.error) # {} THEN call.errorMessage \in CuratedFor(call.error)
    ELSE call.errorMessage = GenericMessage

\* scheduler call p is inside executeSwap
InExecuteSwap(p) ==
  procs[p].pc \in {"resolve", "fund", "recheck", "approve", "swap", "persist", "catch"}

\* the evaluation of p leaves the decision step
Decided(p) == procs[p].pc = "decide" /\ procs'[p].pc # "decide"

\* the step creates exactly one record, for the evaluation of p: pending when
\* executeSwap is called, skipped when the evaluation ends as skipped
CreatesOneRecord(p) ==
  /\ nextId \notin DOMAIN executions
  /\ DOMAIN executions' = DOMAIN executions \cup {nextId}
  /\ \A i \in DOMAIN executions : executions'[i] = executions[i]
  /\ nextId' = nextId + 1
  /\ procs'[p].executionId = nextId
  /\ executions'[nextId].status \in {"pending", "skipped"}
  /\ procs'[p].pc \in {"resolve", "evalEnd"}
  /\ procs'[p].pc = "resolve" => executions'[nextId].status = "pending"
  /\ procs'[p].outcome = "skipped" => executions'[nextId].status = "skipped"
  /\ executions'[nextId].status = "skipped" => procs'[p].pc = "evalEnd"

\* C20: an evaluation past the allowance gate creates one record, pending when
\* executeSwap is called and skipped when the decision is not to execute, or none
\* when it ends with an exception before the record is stored; records are created
\* by nothing else; executeSwap is entered only from that step, for the record just
\* created, so once per record and never for a skipped one; a skipped record is
\* never changed
C20_OneRecordPerEvaluation ==
  /\ [][\A p \in Procs :
          Decided(p) =>
            \/ CreatesOneRecord(p)
            \/ /\ executions' = executions
               /\ nextId' = nextId
               /\ procs'[p].pc = "evalEnd"
               /\ procs'[p].outcome = "exception"]_vars
  /\ [][(nextId' # nextId \/ DOMAIN executions' # DOMAIN executions)
          => \E p \in Procs : Decided(p)]_vars
  /\ [][\A p \in Procs :
          (procs'[p].pc = "resolve" /\ procs[p].pc # "resolve") => Decided(p)]_vars
  /\ [](\A p \in Procs :
          InExecuteSwap(p) =>
            /\ procs[p].executionId \in DOMAIN executions
            /\ executions[procs[p].executionId].status # "skipped"
            /\ \A q \in Procs \ {p} : procs[q].executionId # procs[p].executionId)
  /\ [][\A i \in DOMAIN executions :
          executions[i].status = "skipped" => executions'[i] = executions[i]]_vars

\* one evaluation ended with a skipped record while another call is inside
\* executeSwap for the pending record its evaluation created
C20_SkippedAndPending ==
  \E p \in Procs, q \in Procs :
    /\ procs[p].pc = "evalEnd" /\ procs[p].outcome = "skipped"
    /\ executions[procs[p].executionId].status = "skipped"
    /\ procs[q].pc = "swap"
    /\ executions[procs[q].executionId].status = "pending"

\* C20 as stated: every evaluation past the allowance gate creates exactly one record
C20_ExactlyOneRecord ==
  [][\A p \in Procs : Decided(p) => CreatesOneRecord(p)]_vars

\* C21: no step removes an execution record, and within one UTC day the sum a user
\* has spent today does not decrease
C21_ExecutionsOnlyGrow ==
  [][/\ DOMAIN executions \subseteq DOMAIN executions'
     /\ todayStart(now') = todayStart(now) =>
          \A u \in Users :
            SumAmounts(ExecutedSince(u, todayStart(now)))
              <= SumAmounts(ExecutedSince(u, todayStart(now)))']_vars

\* C22: in every invocation the approval is submitted only after the funding
\* transfer, if one was submitted, is confirmed, the swap only after the approval
\* is confirmed, and the record becomes executed only after the swap is confirmed;
\* nothing is submitted out of this order
C22_StepsWaitForConfirmation ==
  [][\A p \in Procs :
       LET before == procs[p].inv
           after == procs'[p].inv
       IN /\ after.funded > before.funded =>
               before.approved = 0 /\ before.swapped = 0
          /\ after.approved > before.approved =>
               /\ before.funded = 0 \/ "fund" \in before.confirmed
               /\ before.swapped = 0
          /\ after.swapped > before.swapped =>
               before.approved = 1 /\ "approve" \in before.confirmed
          /\ (procs[p].pc = "persist" /\ procs'[p].outcome = "executed") =>
               before.swapped = 1 /\ "swap" \in before.confirmed]_vars

\* an invocation has had its funding transfer, its approval and its swap confirmed
C22_AllStepsConfirmed ==
  \E p \in Procs :
    /\ procs[p].pc = "persist"
    /\ procs[p].inv.funded = 1
    /\ procs[p].inv.confirmed = {"fund", "approve", "swap"}

\* the dip factor with inclusive thresholds: 1.3 at -10% and below, 1.15 at -5% and
\* below, 1 above -5%
InclusiveDip(change) ==
  IF change <= -10 THEN Literal(13, 10)
  ELSE IF change <= -5 THEN Literal(115, 100)
  ELSE NumberOf(1)

\* C23: with smart sizing the amount is the base amount times the clamped product of
\* the volatility factor, the dip factor with inclusive thresholds and the
\* liquidity factor, whatever the toggles
C23_InclusiveDipThresholds ==
  SmartSized =>
    call.result.recommendedAmount =
      IntOf(Floor(MulNumber(NumberOf(call.strategy.baseAmount),
        clampedProduct(volatilityAdjustment(call.indicators, call.strategy),
                       InclusiveDip(call.indicators.priceChange24h),
                       liquidityAdjustment(call.indicators, call.strategy)))))

\* C24: a liquidity result's score is within [0, 1], equals the clamped
\* 0.5 + 0.06 * flow24hPercent + 0.04 * flow7dPercent when totalLiquidity > 0, and
\* is exactly 0.5 whenever the reported totalLiquidity is <= 0
C24_ScoreOfLiquidityResult ==
  call.fn = "getPoolLiquidity" =>
    LET score == call.result.liquidityScore
        total == call.result.totalLiquidity
        events == call.events
        unclampedTwice ==
          total + 12 * NetFlow(events, {"24h"}, Len(events))
                + 8 * NetFlow(events, {"24h", "7d"}, Len(events))
    IN /\ 0 <= score.num /\ score.num <= score.den
       /\ total > 0 =>
            score.num * 2 * total = score.den * Max(0, Min(2 * total, unclampedTwice))
       /\ total <= 0 => 2 * score.num = score.den

\* the score the rules of the buy decision add up to, in tenths
RuleScore(indicators) ==
  LET rules ==
        <<[fires |-> indicators.volatility < 2, by |-> 1],
          [fires |-> indicators.volatility > 10, by |-> -2],
          [fires |-> indicators.trend = "bullish", by |-> 2],
          [fires |-> indicators.trend = "bearish", by |-> 1],
          [fires |-> indicators.priceChange24h < -5, by |-> 3],
          [fires |-> indicators.liquidityScore < 30, by |-> -2],
          [fires |-> indicators.liquidityScore > 70, by |-> 1],
          [fires |-> indicators.volumeRatio > 2, by |-> -1]>>
      Adjustment(i) == IF rules[i].fires THEN rules[i].by ELSE 0
  IN 5 + Adjustment(1) + Adjustment(2) + Adjustment(3) + Adjustment(4)
       + Adjustment(5) + Adjustment(6) + Adjustment(7) + Adjustment(8)

\* C25: shouldBuy starts from 0.5, adds the adjustment of every rule that fires,
\* buys iff the score is above 0.4, and reports the score clamped to [0, 1]
C25_BuyScoreAndThreshold ==
  call.fn = "shouldBuy" =>
    LET score == RuleScore(call.indicators)
    IN /\ call.result.should <=> score > 4
       /\ call.result.confidence = (IF score < 0 THEN 0 ELSE IF score > 10 THEN 10 ELSE score)

\* a score of exactly 0.4 does not buy
C25_ScoreAtThreshold ==
  /\ call.fn = "shouldBuy"
  /\ RuleScore(call.indicators) = 4
  /\ ~call.result.should

\* C26: the trend is neutral whenever a moving average is absent; otherwise it is
\* bullish iff ma7 > ma30 and price > ma7, bearish iff ma7 < ma30 and price < ma7,
\* and neutral otherwise
C26_TrendOfAverages ==
  call.fn = "analyzeMarket" =>
    LET ma7 == call.result.ma7
        ma30 == call.result.ma30
        price == NumberOf(call.currentPrice)
        trend == call.result.trend
    IN /\ ma7.isNull <=> Len(call.prices7d) < 7
       /\ ma30.isNull <=> Len(call.prices30d) < 30
       /\ (ma7.isNull \/ ma30.isNull) => trend = "neutral"
       /\ ~(ma7.isNull \/ ma30.isNull) =>
            /\ trend = "bullish" <=>
                 LessNumber(ma30.value, ma7.value) /\ LessNumber(ma7.value, price)
            /\ trend = "bearish" <=>
                 LessNumber(ma7.value, ma30.value) /\ LessNumber(price, ma7.value)
            /\ trend \in Trends

\* the averages say bullish and the price, equal to ma7, makes the trend neutral
C26_PriceEqualsAverage ==
  /\ call.fn = "analyzeMarket"
  /\ ~call.result.ma7.isNull /\ ~call.result.ma30.isNull
  /\ LessNumber(call.result.ma30.value, call.result.ma7.value)
  /\ ~LessNumber(call.result.ma7.value, NumberOf(call.currentPrice))
  /\ ~LessNumber(NumberOf(call.currentPrice), call.result.ma7.value)
  /\ call.result.trend = "neutral"

LastReadBalance(p) ==
  IF procs[p].inv.newUsdcBalance # -1 THEN procs[p].inv.newUsdcBalance
  ELSE procs[p].inv.usdcBalance

\* C28: the approval and the swap are submitted only where the balance as last read
\* covers the amount, and a funding transfer is followed by a second read
C28_ApprovalNeedsReadBalance ==
  \A p \in Procs :
    (procs[p].pc \in {"approve", "swap"} \/ procs[p].inv.approved > 0
       \/ procs[p].inv.swapped > 0)
    => /\ LastReadBalance(p) >= procs[p].inv.usdcAmount
       /\ procs[p].inv.funded > 0 => procs[p].inv.newUsdcBalance # -1

\* a funded invocation has read a sufficient balance and has submitted its swap
C28_FundedThenSwapped ==
  \E p \in Procs :
    /\ procs[p].inv.swapped = 1
    /\ procs[p].inv.funded = 1
    /\ procs[p].inv.usdcBalance < procs[p].inv.usdcAmount
    /\ procs[p].inv.newUsdcBalance >= procs[p].inv.usdcAmount

====
